---- MODULE Spec2Model ----
(***************************************************************************)
(* Link-layer error detection (src/CamadaEnlace/deteccao_erros.py):        *)
(* even parity, CRC-32 by modulo-2 long division, and the one's-complement *)
(* checksum with its two verifiers.  Bit strings are sequences of the      *)
(* characters "0" and "1", as in the Python source.  Python integers are   *)
(* unbounded; they are kept as two limbs [hi, lo] in base 2^16 so that     *)
(* 32-bit words and their sums are exact.                                  *)
(***************************************************************************)
EXTENDS Integers, Sequences, FiniteSets, TLC

VARIABLES data, checksum_bits, frame, flipped, tx, rx, result, simple, pc

vars == <<data, checksum_bits, frame, flipped, tx, rx, result, simple, pc>>

\* ------------------------------------------------------------------ bounds
\* longest input handed to the parity coder
MaxParityBits == 5
\* longest payload handed to the CRC subsystem
MaxCrcBits == 3
\* number of chunks an input of the checksum subsystem is made of
MaxChunks == 3

\* ------------------------------------------------------- program constants
CHECKSUM_SIZE == 16
\* 0x104C11DB7 as limbs: 0x104C1 * 2^16 + 0x1DB7
CRC32_POLY == [hi |-> 66753, lo |-> 7607]
\* example_data of demonstrate_checksum_example: "ABC" in 8-bit ASCII
example_data ==
  << "0","1","0","0","0","0","0","1",
     "0","1","0","0","0","0","1","0",
     "0","1","0","0","0","0","1","1" >>

\* ------------------------------------------------------- Python primitives
Base == 2^16

Bit == {"0", "1"}

\* '0' * n  (the empty string when n <= 0)
Zeros(n) == [k \in 1..n |-> "0"]

\* s.count('1')
RECURSIVE CountOnes(_)
CountOnes(s) ==
  IF s = <<>> THEN 0
  ELSE (IF Head(s) = "1" THEN 1 ELSE 0) + CountOnes(Tail(s))

\* s[a:b] for 0 <= a, 0 <= b (clipped to the length, empty when b <= a)
Slice(s, a, b) ==
  LET hi == IF b > Len(s) THEN Len(s) ELSE b
  IN  IF a >= hi THEN <<>> ELSE SubSeq(s, a + 1, hi)

\* s[-k:] : the last k characters; the whole string when k = 0 or k >= len
LastChars(s, k) ==
  IF k = 0 \/ k >= Len(s) THEN s ELSE SubSeq(s, Len(s) - k + 1, Len(s))

\* s[:-k] for k > 0 : everything but the last k characters
DropLast(s, k) ==
  IF k >= Len(s) THEN <<>> ELSE SubSeq(s, 1, Len(s) - k)

\* value of a bit string of at most 16 bits as a machine integer
RECURSIVE BitsToNat(_)
BitsToNat(s) ==
  IF s = <<>> THEN 0
  ELSE 2 * BitsToNat(SubSeq(s, 1, Len(s) - 1))
       + (IF s[Len(s)] = "1" THEN 1 ELSE 0)

\* the n low bits of v, most significant first
RECURSIVE NatToBits(_, _)
NatToBits(v, n) ==
  IF n <= 0 THEN <<>>
  ELSE Append(NatToBits(v \div 2, n - 1), IF v % 2 = 1 THEN "1" ELSE "0")

\* number of bits of v without leading zeros (0 for v = 0)
RECURSIVE BitLength(_)
BitLength(v) == IF v = 0 THEN 0 ELSE 1 + BitLength(v \div 2)

\* int(word, 2) for a non-empty word of at most 32 bits
IntOfBits(word) ==
  IF Len(word) <= 16 THEN [hi |-> 0, lo |-> BitsToNat(word)]
  ELSE [hi |-> BitsToNat(SubSeq(word, 1, Len(word) - 16)),
        lo |-> BitsToNat(SubSeq(word, Len(word) - 15, Len(word)))]

PyZero == [hi |-> 0, lo |-> 0]

\* a + b
PyAdd(a, b) ==
  [hi |-> a.hi + b.hi + ((a.lo + b.lo) \div Base), lo |-> (a.lo + b.lo) % Base]

\* a > b
PyGreater(a, b) == a.hi > b.hi \/ (a.hi = b.hi /\ a.lo > b.lo)

\* (1 << w) - 1 for 1 <= w <= 32
MaxValue(w) ==
  IF w <= 16 THEN [hi |-> 0, lo |-> 2^w - 1]
  ELSE [hi |-> 2^(w - 16) - 1, lo |-> Base - 1]

\* a >> w for 1 <= w <= 32
PyShiftRight(a, w) ==
  IF w <= 16
    THEN LET low == (a.hi % 2^w) * 2^(16 - w) + (a.lo \div 2^w)
         IN  [hi |-> (a.hi \div 2^w) + (low \div Base), lo |-> low % Base]
    ELSE LET v == a.hi \div 2^(w - 16)
         IN  [hi |-> v \div Base, lo |-> v % Base]

\* a & ((1 << w) - 1) for 1 <= w <= 32
PyMask(a, w) ==
  IF w <= 16 THEN [hi |-> 0, lo |-> a.lo % 2^w]
  ELSE [hi |-> a.hi % 2^(w - 16), lo |-> a.lo]

\* (~a) & ((1 << w) - 1) for 1 <= w <= 32: ~a is -a-1, whose low w bits are
\* the complement of the low w bits of a
PyInvertMask(a, w) ==
  LET m == MaxValue(w)
      t == PyMask(a, w)
  IN  [hi |-> m.hi - t.hi, lo |-> m.lo - t.lo]

\* format(v, '0{w}b') for v < 2^w, 1 <= w <= 32
FormatBits(v, w) ==
  IF w <= 16 THEN NatToBits(v.lo, w)
  ELSE NatToBits(v.hi, w - 16) \o NatToBits(v.lo, 16)

\* bin(v)[2:] for v >= 2^16
Bin(v) == NatToBits(v.hi, BitLength(v.hi)) \o NatToBits(v.lo, 16)

\* a % b with Python's sign rule (the result has the sign of b), a >= 0, b # 0
PyMod(a, b) == IF b > 0 THEN a % b ELSE -((-a) % (-b))

\* a // b (floor division), a >= 0, b # 0
PyFloorDiv(a, b) == IF b > 0 THEN a \div b ELSE -((a + (-b) - 1) \div (-b))

\* outcome of a call: a returned value or a raised exception
Ok(v) == [kind |-> "ok", value |-> v]
Raise(e) == [kind |-> e, value |-> <<>>]
NoResult == [kind |-> "none", value |-> <<>>]

\* ------------------------------------------------------------------ parity
\* mutant: the parity bit is chosen for an odd count of ones
add_odd_parity(bit_chunk) ==
  Append(bit_chunk, IF CountOnes(bit_chunk) % 2 # 0 THEN "0" ELSE "1")

add_even_parity(bit_chunk) ==
  Append(bit_chunk, IF CountOnes(bit_chunk) % 2 # 0 THEN "1" ELSE "0")

check_even_parity(chunk_with_parity) ==
  CountOnes(chunk_with_parity) % 2 = 0

\* -------------------------------------------------------------- the channel
\* the frame with the bit at 0-based index i inverted
FlipAt(s, i) == [s EXCEPT ![i + 1] = IF @ = "0" THEN "1" ELSE "0"]

\* the frame with every bit whose 0-based index is in F inverted
FlipSet(s, F) ==
  [k \in 1..Len(s) |-> IF (k - 1) \in F THEN (IF s[k] = "0" THEN "1" ELSE "0")
                       ELSE s[k]]

\* ------------------------------------------------------------------ inputs
\* every bit string of at most n bits
BitStrings(n) == UNION {[1..k -> Bit] : k \in 0..n}

TypeOK ==
  /\ pc \in {"idle", "sent", "checked", "crosschecked"}
  /\ flipped \subseteq 0..(Len(frame) - 1)
  /\ \A k \in 1..Len(frame) : frame[k] \in Bit
  /\ result.kind \in {"none", "ok", "ValueError", "ZeroDivisionError"}

\* the state before any call: the caller holds data, nothing was sent
Idle(inputs) ==
  /\ data \in inputs
  /\ checksum_bits = CHECKSUM_SIZE
  /\ frame = <<>>
  /\ flipped = {}
  /\ tx = "none"
  /\ rx = "none"
  /\ result = NoResult
  /\ simple = NoResult
  /\ pc = "idle"

\* ----------------------------------------------------------- parity system
InitParity == Idle(BitStrings(MaxParityBits))

SendParity ==
  /\ pc = "idle"
  /\ frame' = add_even_parity(data)
  /\ tx' = "add_even_parity"
  /\ pc' = "sent"
  /\ UNCHANGED <<data, checksum_bits, flipped, rx, result, simple>>

FlipBit(i) ==
  /\ pc = "sent"
  /\ i \in 0..(Len(frame) - 1)
  /\ i \notin flipped
  /\ frame' = FlipAt(frame, i)
  /\ flipped' = flipped \cup {i}
  /\ UNCHANGED <<data, checksum_bits, tx, rx, result, simple, pc>>

CheckParity ==
  /\ pc = "sent"
  /\ rx' = "check_even_parity"
  /\ result' = Ok(check_even_parity(frame))
  /\ pc' = "checked"
  /\ UNCHANGED <<data, checksum_bits, frame, flipped, tx, simple>>

NextParity ==
  \/ SendParity
  \/ \E i \in 0..MaxParityBits : FlipBit(i)
  \/ CheckParity

SpecParity == InitParity /\ [][NextParity]_vars

\* C7: even parity detects exactly the odd-weight errors: the check of the
\* frame produced by add_even_parity, with the bits of any set F inverted, is
\* true iff |F| is even; the frame is exactly one bit longer than the input.
ParityDetectsOddWeight ==
  (pc = "checked" /\ rx = "check_even_parity") =>
     /\ Len(frame) = Len(data) + 1
     /\ result.kind = "ok"
     /\ (result.value = TRUE) <=> (Cardinality(flipped) % 2 = 0)

ParityWitness ==
  /\ pc = "checked" /\ rx = "check_even_parity"
  /\ Cardinality(flipped) = 2
  /\ Len(data) = 3
  /\ result.value = TRUE

\* --------------------------------------------------------------------- CRC
\* list(map(int, s)) and "".join(map(str, l))
ToInts(s) == [k \in 1..Len(s) |-> IF s[k] = "1" THEN 1 ELSE 0]
ToStr(l) == [k \in 1..Len(l) |-> IF l[k] = 1 THEN "1" ELSE "0"]

\* a ^ b on single bits
Xor(a, b) == (a + b) % 2

\* the inner loop: data[i + j] ^= poly[j] for j in range(n)  (i is 0-based)
XorWindow(d, poly, i) ==
  [k \in 1..Len(d) |->
     IF k > i /\ k <= i + Len(poly) THEN Xor(d[k], poly[k - i]) ELSE d[k]]

\* the outer loop from index i on: for i in range(len(data) - n + 1)
RECURSIVE DivideFrom(_, _, _)
DivideFrom(d, poly, i) ==
  IF i >= Len(d) - Len(poly) + 1 THEN d
  ELSE DivideFrom(IF d[i + 1] = 1 THEN XorWindow(d, poly, i) ELSE d, poly, i + 1)

crc_division_engine(data_bits_str, poly_bits_str) ==
  LET poly == ToInts(poly_bits_str)
      d    == DivideFrom(ToInts(data_bits_str), poly, 0)
  IN  ToStr(LastChars(d, Len(poly) - 1))

\* s.zfill(n)
ZFill(s, n) == Zeros(n - Len(s)) \o s

\* mutant: the data is divided without the n-1 zero bits appended
generate_crc_unpadded(data_bits) ==
  LET poly_bits     == Bin(CRC32_POLY)
      num_poly_bits == Len(poly_bits)
      remainder     == crc_division_engine(data_bits, poly_bits)
  IN  ZFill(remainder, num_poly_bits - 1)

generate_crc(data_bits) ==
  LET poly_bits     == Bin(CRC32_POLY)
      num_poly_bits == Len(poly_bits)
      padded_data   == data_bits \o Zeros(num_poly_bits - 1)
      remainder     == crc_division_engine(padded_data, poly_bits)
  IN  ZFill(remainder, num_poly_bits - 1)

\* mutant: only the low 16 bits of the remainder are returned
check_crc_low16(frame_with_crc) ==
  LET poly_bits     == Bin(CRC32_POLY)
      remainder_str == crc_division_engine(frame_with_crc, poly_bits)
  IN  IF remainder_str = <<>> THEN Raise("ValueError")
      ELSE Ok([hi |-> 0, lo |-> IntOfBits(remainder_str).lo])

\* int('', 2) raises ValueError
check_crc(frame_with_crc) ==
  LET poly_bits     == Bin(CRC32_POLY)
      remainder_str == crc_division_engine(frame_with_crc, poly_bits)
  IN  IF remainder_str = <<>> THEN Raise("ValueError")
      ELSE Ok(IntOfBits(remainder_str))

\* degree of the generator polynomial
Degree == Len(Bin(CRC32_POLY)) - 1

\* -------------------------------------------------------------- CRC system
InitCRC == Idle(BitStrings(MaxCrcBits))

\* the producer appends the CRC to its data
SendCRC ==
  /\ pc = "idle"
  /\ frame' = data \o generate_crc(data)
  /\ tx' = "generate_crc"
  /\ pc' = "sent"
  /\ UNCHANGED <<data, checksum_bits, flipped, rx, result, simple>>

\* the channel inverts the contiguous run [p, p + L) of the frame
FlipBurst(p, L) ==
  /\ pc = "sent"
  /\ flipped = {}
  /\ L >= 1
  /\ p >= 0
  /\ p + L <= Len(frame)
  /\ flipped' = p..(p + L - 1)
  /\ frame' = FlipSet(frame, flipped')
  /\ UNCHANGED <<data, checksum_bits, tx, rx, result, simple, pc>>

\* the consumer checks the frame it received
CheckCRC ==
  /\ pc = "sent"
  /\ rx' = "check_crc"
  /\ result' = check_crc(frame)
  /\ pc' = "checked"
  /\ UNCHANGED <<data, checksum_bits, frame, flipped, tx, simple>>

\* the consumer checks a sequence that no producer framed
CheckRawCRC ==
  /\ pc = "idle"
  /\ frame' = data
  /\ rx' = "check_crc"
  /\ result' = check_crc(data)
  /\ pc' = "checked"
  /\ UNCHANGED <<data, checksum_bits, flipped, tx, simple>>

NextCRC ==
  \/ SendCRC
  \/ \E p \in 0..(MaxCrcBits + Degree - 1), L \in 1..Degree : FlipBurst(p, L)
  \/ CheckCRC
  \/ CheckRawCRC

SpecCRC == InitCRC /\ [][NextCRC]_vars

\* C2: CRC round trip: the check of data ++ generate_crc(data), as sent and
\* not altered, returns the integer 0, for every data including the empty one.
CrcRoundTrip ==
  (pc = "checked" /\ tx = "generate_crc" /\ rx = "check_crc" /\ flipped = {})
     => (Len(frame) = Len(data) + Degree /\ result = Ok(PyZero))

CrcRoundTripWitness ==
  /\ pc = "checked" /\ tx = "generate_crc" /\ rx = "check_crc" /\ flipped = {}
  /\ data = <<"1", "0", "1">>
  /\ result = Ok(PyZero)
  /\ \E k \in 4..Len(frame) : frame[k] = "1"

\* C6: CRC burst detection: inverting any contiguous run of 1..degree bits
\* of data ++ generate_crc(data) makes check_crc return a non-zero value.
CrcBurstDetected ==
  (pc = "checked" /\ tx = "generate_crc" /\ rx = "check_crc" /\ flipped # {})
     => (result.kind = "ok" /\ result.value # PyZero)

CrcBurstWitness ==
  /\ pc = "checked" /\ tx = "generate_crc" /\ rx = "check_crc"
  /\ Cardinality(flipped) = Degree
  /\ Len(data) = 3
  /\ 0 \in flipped
  /\ result.kind = "ok" /\ result.value # PyZero

\* C9: check_crc rejects every input shorter than the generator polynomial
\* with an InvalidInputLength error.
CrcShortInputRejected ==
  (pc = "checked" /\ rx = "check_crc" /\ Len(frame) < Len(Bin(CRC32_POLY)))
     => result.kind = "InvalidInputLength"

\* ---------------------------------------------------------------- checksum
\* total of the words bits[i*w : i*w + w] for i in range(from, to); the loop's
\* running sum, split in halves (addition is associative) to keep the
\* evaluation shallow
RECURSIVE SumWords(_, _, _, _)
SumWords(bits, w, from, to) ==
  IF from >= to THEN PyZero
  ELSE IF to = from + 1 THEN IntOfBits(Slice(bits, from * w, from * w + w))
  ELSE LET mid == (from + to) \div 2
       IN  PyAdd(SumWords(bits, w, from, mid), SumWords(bits, w, mid, to))

\* while total > max_value: total = (total & max_value) + (total >> w)
RECURSIVE FoldCarry(_, _)
FoldCarry(total, w) ==
  IF PyGreater(total, MaxValue(w))
    THEN FoldCarry(PyAdd(PyMask(total, w), PyShiftRight(total, w)), w)
    ELSE total

\* data_bits right-padded with zeros to a multiple of w (w # 0)
PadToWords(data_bits, w) ==
  IF PyMod(Len(data_bits), w) # 0
    THEN data_bits \o Zeros(w - PyMod(Len(data_bits), w))
    ELSE data_bits

\* mutant: the carry above the word is dropped instead of folded back
calculate_checksum_nocarry(data_bits, w) ==
  IF w = 0 THEN Raise("ZeroDivisionError")
  ELSE LET padded    == PadToWords(data_bits, w)
           num_words == PyFloorDiv(Len(padded), w)
       IN  IF w < 0 THEN Raise("ValueError")
           ELSE Ok(FormatBits(
                  PyInvertMask(PyMask(SumWords(padded, w, 0, num_words), w), w),
                  w))

\* mutant: a negative width is taken by its magnitude, 0 by the default
calculate_checksum_abs(data_bits, w) ==
  LET v         == IF w = 0 THEN CHECKSUM_SIZE ELSE IF w < 0 THEN -w ELSE w
      padded    == PadToWords(data_bits, v)
      num_words == PyFloorDiv(Len(padded), v)
  IN  Ok(FormatBits(PyInvertMask(FoldCarry(SumWords(padded, v, 0, num_words), v),
                                 v), v))

\* len % 0 raises ZeroDivisionError; 1 << w raises ValueError for w < 0,
\* after a padding of '' and an empty loop
calculate_checksum(data_bits, w) ==
  IF w = 0 THEN Raise("ZeroDivisionError")
  ELSE LET padded    == PadToWords(data_bits, w)
           num_words == PyFloorDiv(Len(padded), w)
       IN  IF w < 0 THEN Raise("ValueError")
           ELSE Ok(FormatBits(
                  PyInvertMask(FoldCarry(SumWords(padded, w, 0, num_words), w), w),
                  w))

add_checksum(data_bits, w) ==
  LET checksum == calculate_checksum(data_bits, w)
  IN  IF checksum.kind # "ok" THEN checksum
      ELSE Ok(data_bits \o checksum.value)

\* mutant: the trailing partial word is summed as well
verify_checksum_padded(data_with_checksum, w) ==
  LET all_bits  == PadToWords(data_with_checksum, w)
      num_words == Len(all_bits) \div w
  IN  Ok(FoldCarry(SumWords(all_bits, w, 0, num_words), w) = PyZero)

\* for w > 0
verify_checksum(data_with_checksum, w) ==
  LET data_bits           == DropLast(data_with_checksum, w)
      received_checksum   == LastChars(data_with_checksum, w)
      calculated_checksum == calculate_checksum(data_bits, w)
      all_bits            == data_with_checksum
      num_words           == Len(all_bits) \div w
  IN  IF calculated_checksum.kind # "ok" THEN calculated_checksum
      ELSE Ok(FoldCarry(SumWords(all_bits, w, 0, num_words), w) = PyZero)

\* for w > 0
verify_checksum_simple(data_with_checksum, w) ==
  LET data_bits           == DropLast(data_with_checksum, w)
      received_checksum   == LastChars(data_with_checksum, w)
      calculated_checksum == calculate_checksum(data_bits, w)
  IN  IF calculated_checksum.kind # "ok" THEN calculated_checksum
      ELSE Ok(<<calculated_checksum.value = received_checksum,
                calculated_checksum.value, received_checksum>>)

\* --------------------------------------------------------- checksum system
\* widths the checksum is documented for
ChecksumWidths == {8, 16, 32}
\* further positive widths the functions accept
PositiveWidths == ChecksumWidths \cup {1, 3}
\* widths that are not positive
BadWidths == {0, -1, -8}

Ones(n) == [k \in 1..n |-> "1"]

\* the pieces the inputs of the checksum subsystem are concatenated from
Chunks == {<<"0">>, <<"1">>, Zeros(7), Ones(16)}

\* every concatenation of at most k chunks
RECURSIVE ChunkStrings(_)
ChunkStrings(k) ==
  IF k = 0 THEN {<<>>}
  ELSE LET shorter == ChunkStrings(k - 1)
       IN  shorter \cup {s \o c : s \in shorter, c \in Chunks}

InitChecksum == Idle(ChunkStrings(MaxChunks) \cup {example_data})

\* a direct call of calculate_checksum, with any width
Calculate(w) ==
  /\ pc = "idle"
  /\ checksum_bits' = w
  /\ rx' = "calculate_checksum"
  /\ result' = calculate_checksum(data, w)
  /\ pc' = "checked"
  /\ UNCHANGED <<data, frame, flipped, tx, simple>>

\* the producer appends the checksum to its data
SendChecksum(w) ==
  /\ pc = "idle"
  /\ checksum_bits' = w
  /\ frame' = add_checksum(data, w).value
  /\ tx' = "add_checksum"
  /\ pc' = "sent"
  /\ UNCHANGED <<data, flipped, rx, result, simple>>

\* the channel inverts one bit of the frame
FlipOne(i) ==
  /\ pc = "sent"
  /\ flipped = {}
  /\ FlipBit(i)

\* the consumer verifies the frame it received
VerifyChecksum ==
  /\ pc = "sent"
  /\ rx' = "verify_checksum"
  /\ result' = verify_checksum(frame, checksum_bits)
  /\ pc' = "checked"
  /\ UNCHANGED <<data, checksum_bits, frame, flipped, tx, simple>>

\* the consumer verifies a sequence that no producer framed
VerifyRaw(w) ==
  /\ pc = "idle"
  /\ checksum_bits' = w
  /\ frame' = data
  /\ rx' = "verify_checksum"
  /\ result' = verify_checksum(data, w)
  /\ pc' = "checked"
  /\ UNCHANGED <<data, flipped, tx, simple>>

\* the diagnostic verifier is run on the frame just verified
VerifySimple ==
  /\ pc = "checked"
  /\ rx = "verify_checksum"
  /\ simple' = verify_checksum_simple(frame, checksum_bits)
  /\ pc' = "crosschecked"
  /\ UNCHANGED <<data, checksum_bits, frame, flipped, tx, rx, result>>

NextChecksum ==
  \/ \E w \in PositiveWidths \cup BadWidths : Calculate(w)
  \/ \E w \in ChecksumWidths : SendChecksum(w)
  \/ \E i \in 0..(16 * MaxChunks + 32) : FlipOne(i)
  \/ VerifyChecksum
  \/ \E w \in PositiveWidths : VerifyRaw(w)
  \/ VerifySimple

SpecChecksum == InitChecksum /\ [][NextChecksum]_vars

\* ------------------------------------------------- checksum: the reference
\* One's-complement addition of two words a and b of w bits (lists of 0/1,
\* most significant first) is binary addition whose carry out of the top bit
\* enters the bottom bit.  A carry enters position k iff, at some position j
\* reached from k by going d steps towards the low end and around, both bits
\* are 1 and every position passed on the way has at least one bit set.
CarryInto(a, b, k) ==
  LET w      == Len(a)
      pos(t) == ((k - 1 + t) % w) + 1
  IN  \E d \in 1..w :
         /\ a[pos(d)] + b[pos(d)] = 2
         /\ \A t \in 1..(d - 1) : a[pos(t)] + b[pos(t)] >= 1

OnesComplementAdd(a, b) ==
  [k \in 1..Len(a) |->
     (a[k] + b[k] + (IF CarryInto(a, b, k) THEN 1 ELSE 0)) % 2]

\* the one's-complement sum of the words from..to-1 of a padded bit list
RECURSIVE OnesComplementSum(_, _, _, _)
OnesComplementSum(bits, w, from, to) ==
  IF from >= to THEN [k \in 1..w |-> 0]
  ELSE IF to = from + 1 THEN SubSeq(bits, from * w + 1, from * w + w)
  ELSE LET mid == (from + to) \div 2
       IN  OnesComplementAdd(OnesComplementSum(bits, w, from, mid),
                             OnesComplementSum(bits, w, mid, to))

\* the reference checksum: pad on the right, add the words with end-around
\* carry, complement every bit
ReferenceChecksum(bits, w) ==
  LET padded == bits \o Zeros((w - (Len(bits) % w)) % w)
      total  == OnesComplementSum(ToInts(padded), w, 0, Len(padded) \div w)
  IN  [k \in 1..w |-> IF total[k] = 1 THEN "0" ELSE "1"]

\* every complete w-bit word of s, taken from the start, is all zeros
CompleteWordsAllZero(s, w) ==
  \A k \in 1..(w * (Len(s) \div w)) : s[k] = "0"

\* --------------------------------------------------------- checksum claims
\* C1: checksum round trip: verify_checksum accepts the unaltered frame
\* add_checksum(data, w), for every data and w in {8, 16, 32}.
ChecksumRoundTrip ==
  (pc = "checked" /\ tx = "add_checksum" /\ rx = "verify_checksum"
     /\ flipped = {} /\ checksum_bits \in ChecksumWidths)
     => result = Ok(TRUE)

\* C3: checksum single-bit error detection: inverting one bit in the data
\* portion of add_checksum(data, 16) makes verify_checksum return false.
ChecksumSingleFlipDetected ==
  (pc = "checked" /\ tx = "add_checksum" /\ rx = "verify_checksum"
     /\ checksum_bits = 16
     /\ \E i \in 0..(Len(data) - 1) : flipped = {i})
     => result = Ok(FALSE)

\* C4: the two verifiers agree on uncorrupted data: on the unaltered frame
\* add_checksum(data, w), w in {8, 16, 32}, verify_checksum returns what
\* verify_checksum_simple returns as isValid.
VerifiersAgree ==
  (pc = "crosschecked" /\ tx = "add_checksum" /\ flipped = {}
     /\ checksum_bits \in ChecksumWidths)
     => (result.kind = "ok" /\ simple.kind = "ok"
         /\ result.value = simple.value[1])

\* C5: calculate_checksum(data, w) is the reference one's-complement
\* checksum (right-pad to a multiple of w, sum the words, fold the carry back,
\* complement), exactly w bits with leading zeros kept; for "ABC" and w = 8
\* it is "00111001".
ChecksumIsReference ==
  (pc = "checked" /\ rx = "calculate_checksum" /\ checksum_bits > 0)
     => /\ result = Ok(ReferenceChecksum(data, checksum_bits))
        /\ Len(result.value) = checksum_bits
        /\ (data = example_data /\ checksum_bits = 8)
             => result.value = <<"0","0","1","1","1","0","0","1">>

\* 0xFF + 0xFF + 0x01 = 0x1FF folds twice (0x100, then 0x01)
ChecksumIsReferenceWitness ==
  /\ pc = "checked" /\ rx = "calculate_checksum" /\ checksum_bits = 8
  /\ data = Ones(16) \o Zeros(7) \o <<"1">>
  /\ result = Ok(<<"1","1","1","1","1","1","1","0">>)

====
